---------------------------- MODULE Spec2Model ----------------------------
(***************************************************************************)
(* Model of src/a.py, the "India Smart Logistics Hub" Streamlit page:      *)
(*   calculate_distance  (haversine road distance between two states),     *)
(*   get_risk_analysis   (rule-based delay-risk score with reasons),       *)
(*   the cost estimator of tab 3,                                          *)
(*   and the script itself, which Streamlit re-runs on every widget event. *)
(*                                                                         *)
(* Real numbers are fixed point.  Angles and the haversine intermediates   *)
(* carry nine decimal digits (unit 10^-9); products are formed limb by     *)
(* limb so that every intermediate stays inside TLC's 32-bit integers.     *)
(* Money is counted in paise (1/100 rupee), which represents every value   *)
(* the cost formula can produce exactly.                                   *)
(***************************************************************************)
EXTENDS Integers, Sequences, FiniteSets, TLC

(***************************************************************************)
(* Fixed-point arithmetic (the float operations of lines 49-57).           *)
(***************************************************************************)
ONE == 1000000000

Abs(x) == IF x < 0 THEN -x ELSE x

\* a * b / 10^9 for a, b >= 0, by three limbs of three digits.
MulAbs(a, b) ==
  LET a2 == a \div 1000000
      a1 == (a \div 1000) % 1000
      a0 == a % 1000
      b2 == b \div 1000000
      b1 == (b \div 1000) % 1000
      b0 == b % 1000
      lo == a1 * b0 + a0 * b1 + ((a0 * b0) \div 1000)
      mi == a2 * b0 + a1 * b1 + a0 * b2 + (lo \div 1000)
  IN  a2 * b2 * 1000 + (a2 * b1 + a1 * b2) + (mi \div 1000)

\* Float multiplication is exact in the sign: (-a) * b = -(a * b).
Mul(a, b) ==
  IF (a < 0) # (b < 0) THEN -MulAbs(Abs(a), Abs(b)) ELSE MulAbs(Abs(a), Abs(b))

\* x / n for a small positive integer n, rounding toward zero in magnitude.
DivInt(x, n) == IF x < 0 THEN -((-x) \div n) ELSE x \div n

\* math.radians: degrees (unit 10^-4) to radians (unit 10^-9);
\* pi / 180 = 0.017453292519943...
radians(deg) == deg * 1745 + Mul(deg, 329251994)

\* Alternating Taylor series: next term = -term * x2 / ((2k+first)(2k+first+1)).
RECURSIVE Series(_, _, _, _, _)
Series(term, x2, k, acc, first) ==
  IF term = 0 THEN acc
  ELSE LET t == -DivInt(Mul(term, x2), (2 * k + first) * (2 * k + first + 1))
       IN  Series(t, x2, k + 1, acc + t, first)

SinPos(x) == Series(x, Mul(x, x), 0, x, 2)

\* math.sin is odd: sin(-x) = -sin(x) bit for bit.
sin(x) == IF x < 0 THEN -SinPos(-x) ELSE SinPos(x)

cos(x) == Series(ONE, Mul(x, x), 0, ONE, 1)

\* math.sqrt on [0, 1]: the largest s with s * s <= a, by bisection.
RECURSIVE SqrtBisect(_, _, _)
SqrtBisect(a, lo, hi) ==
  IF hi - lo <= 1 THEN lo
  ELSE LET mid == (lo + hi) \div 2
       IN  IF MulAbs(mid, mid) <= a THEN SqrtBisect(a, mid, hi)
                                    ELSE SqrtBisect(a, lo, mid)

sqrt(a) == SqrtBisect(a, 0, ONE)

\* math.asin for small s >= 0: s + s^3/6 + 3 s^5/40 + ...,
\* next term = term * s2 * (2k+1)^2 / ((2k+2)(2k+3)).
RECURSIVE AsinSeries(_, _, _, _)
AsinSeries(term, s2, k, acc) ==
  IF term = 0 THEN acc
  ELSE LET t == (Mul(term, s2) * (2 * k + 1) * (2 * k + 1))
                  \div ((2 * k + 2) * (2 * k + 3))
       IN  AsinSeries(t, s2, k + 1, acc + t)

asin(s) == AsinSeries(s, Mul(s, s), 0, s)

(***************************************************************************)
(* Data assets (lines 17-33): (lat, lon) in units of 10^-4 degree.         *)
(***************************************************************************)
state_coords ==
  [ s \in { "Delhi", "Maharashtra", "Karnataka", "Tamil Nadu", "Gujarat",
            "West Bengal", "Rajasthan", "Uttar Pradesh", "Assam", "Kerala",
            "Jammu & Kashmir", "Himachal Pradesh", "Madhya Pradesh",
            "Telangana", "Punjab" } |->
      CASE s = "Delhi"            -> <<287041, 771025>>
        [] s = "Maharashtra"      -> <<197515, 757139>>
        [] s = "Karnataka"        -> <<153173, 757139>>
        [] s = "Tamil Nadu"       -> <<111271, 786569>>
        [] s = "Gujarat"          -> <<222587, 711924>>
        [] s = "West Bengal"      -> <<229868, 878550>>
        [] s = "Rajasthan"        -> <<270238, 742179>>
        [] s = "Uttar Pradesh"    -> <<268467, 809462>>
        [] s = "Assam"            -> <<262006, 929376>>
        [] s = "Kerala"           -> <<108505, 762711>>
        [] s = "Jammu & Kashmir"  -> <<337782, 765762>>
        [] s = "Himachal Pradesh" -> <<311048, 771734>>
        [] s = "Madhya Pradesh"   -> <<229734, 786569>>
        [] s = "Telangana"        -> <<181124, 790193>>
        [] s = "Punjab"           -> <<311471, 753412>> ]

States == DOMAIN state_coords

(***************************************************************************)
(* calculate_distance (lines 38-57).                                       *)
(***************************************************************************)
IntraStateDistance == 15

\* r * 1.2 in metres: 6371 km * 1.2 = 7645.2 km.
BufferedRadiusMetres == 7645200

\* Faulty variant of Haversine: cos(lat1) is used for both latitudes.
Haversine_asym(p1, p2) ==
  LET lat1 == radians(p1[1])
      lon1 == radians(p1[2])
      lat2 == radians(p2[1])
      lon2 == radians(p2[2])
      dlon == lon2 - lon1
      dlat == lat2 - lat1
      sa   == sin(DivInt(dlat, 2))
      sb   == sin(DivInt(dlon, 2))
      a    == Mul(sa, sa) + Mul(Mul(cos(lat1), cos(lat1)), Mul(sb, sb))
      c    == 2 * asin(sqrt(a))
  IN  Mul(c, BufferedRadiusMetres) \div 1000

\* Lines 49-57: the haversine formula on two coordinate pairs, in whole km.
Haversine(p1, p2) ==
  LET lat1 == radians(p1[1])
      lon1 == radians(p1[2])
      lat2 == radians(p2[1])
      lon2 == radians(p2[2])
      dlon == lon2 - lon1
      dlat == lat2 - lat1
      sa   == sin(DivInt(dlat, 2))
      sb   == sin(DivInt(dlon, 2))
      a    == Mul(sa, sa) + Mul(Mul(cos(lat1), cos(lat2)), Mul(sb, sb))
      c    == 2 * asin(sqrt(a))
  IN  Mul(c, BufferedRadiusMetres) \div 1000

\* Haversine over the pairs of state_coords, evaluated once per pair: the
\* formula is a function of the two coordinate pairs alone.
HaversineKm ==
  [s1 \in States |-> [s2 \in States |->
      Haversine(state_coords[s1], state_coords[s2])]] @@ <<>>

\* The outcome of a call: a returned value or a raised KeyError, with the
\* keys of state_coords the call looked up before it ended.
Returned(v, keys) == [kind |-> "return", value |-> v, looked_up |-> keys]
KeyError(k, keys) == [kind |-> "KeyError", value |-> k, looked_up |-> keys]

\* Faulty variant of calculate_distance: the test of line 42 is missing.
calculate_distance_nocheck(state1, state2) ==
  IF state1 \notin States THEN KeyError(state1, <<state1>>)
  ELSE IF state2 \notin States THEN KeyError(state2, <<state1, state2>>)
  ELSE Returned(HaversineKm[state1][state2], <<state1, state2>>)

calculate_distance(state1, state2) ==
  IF state1 = state2 THEN Returned(IntraStateDistance, <<>>)
  ELSE IF state1 \notin States THEN KeyError(state1, <<state1>>)
  ELSE IF state2 \notin States THEN KeyError(state2, <<state1, state2>>)
  ELSE Returned(HaversineKm[state1][state2], <<state1, state2>>)

(***************************************************************************)
(* get_risk_analysis (lines 59-89).  The running total and the reasons     *)
(* list are threaded through the four rules as acc = [risk, reasons].      *)
(***************************************************************************)
BaseRisk == 10
LongHaulKm == 1800
LongHaulPenalty == 25
ShortHopKm == 100
ShortHopBonus == 5
TerrainPenalty == 40
CorridorBonus == 10
TruckingKm == 1000
TruckingPenalty == 15
AirBonus == 30
AirFloor == 5
MaxRisk == 99

LongHaulReason == "Long haul route (>1800km) prone to highway fatigue delays."
ShortHopReason == "Short intra-state hop; typically same-day delivery."
TerrainReason(dest) ==
  "Destination " \o dest \o " has challenging terrain/weather risks."
CorridorReason ==
  "Golden Corridor (Mum-Ahd) has excellent highway infrastructure."
TruckingReason ==
  "Trucking over 1000km faces potential border checkpost delays."
AirReason == "Air cargo bypasses road traffic and border checks."

difficult_terrain == {"Jammu & Kashmir", "Himachal Pradesh", "Assam"}

Max(a, b) == IF a >= b THEN a ELSE b
Min(a, b) == IF a <= b THEN a ELSE b

Adjust(acc, delta, reason) ==
  [risk |-> acc.risk + delta, reasons |-> Append(acc.reasons, reason)]

\* Lines 63-69.
DistanceRule(acc, distance) ==
  IF distance > LongHaulKm THEN Adjust(acc, LongHaulPenalty, LongHaulReason)
  ELSE IF distance < ShortHopKm THEN Adjust(acc, -ShortHopBonus, ShortHopReason)
  ELSE acc

\* Faulty variant of GeographyRule: every other destination adds 15.
GeographyRule_tiered(acc, dest) ==
  IF dest \in difficult_terrain
  THEN Adjust(acc, TerrainPenalty, TerrainReason(dest))
  ELSE Adjust(acc, 15, "Standard regional risk.")

\* Lines 72-75.
GeographyRule(acc, dest) ==
  IF dest \in difficult_terrain
  THEN Adjust(acc, TerrainPenalty, TerrainReason(dest))
  ELSE acc

\* Faulty variant of CorridorRule: the discount is floored like the air rule.
CorridorRule_floor(acc, source, dest) ==
  IF source = "Maharashtra" /\ dest = "Gujarat"
  THEN [risk |-> Max(AirFloor, acc.risk - CorridorBonus),
        reasons |-> Append(acc.reasons, CorridorReason)]
  ELSE acc

\* Faulty variant of CorridorRule: the discount is applied without a reason.
CorridorRule_silent(acc, source, dest) ==
  IF source = "Maharashtra" /\ dest = "Gujarat"
  THEN [acc EXCEPT !.risk = acc.risk - CorridorBonus]
  ELSE acc

\* Lines 77-79.
CorridorRule(acc, source, dest) ==
  IF source = "Maharashtra" /\ dest = "Gujarat"
  THEN Adjust(acc, -CorridorBonus, CorridorReason)
  ELSE acc

\* Faulty variant of ModeRule: a third branch penalises Standard Post.
ModeRule_post(acc, mode, distance) ==
  IF mode = "Surface (Trucking)" /\ distance > TruckingKm
  THEN Adjust(acc, TruckingPenalty, TruckingReason)
  ELSE IF mode = "Express Air"
  THEN [risk |-> Max(AirFloor, acc.risk - AirBonus),
        reasons |-> Append(acc.reasons, AirReason)]
  ELSE IF mode = "Standard Post (India Post)"
  THEN Adjust(acc, 35, "Standard Post has high variability.")
  ELSE acc

\* Lines 82-87.
ModeRule(acc, mode, distance) ==
  IF mode = "Surface (Trucking)" /\ distance > TruckingKm
  THEN Adjust(acc, TruckingPenalty, TruckingReason)
  ELSE IF mode = "Express Air"
  THEN [risk |-> Max(AirFloor, acc.risk - AirBonus),
        reasons |-> Append(acc.reasons, AirReason)]
  ELSE acc

\* The order in which lines 63-87 evaluate the rules.
RuleOrder == <<"distance", "geography", "corridor", "mode">>

ApplyRule(rule, acc, source, dest, distance, mode) ==
  CASE rule = "distance"  -> DistanceRule(acc, distance)
    [] rule = "geography" -> GeographyRule(acc, dest)
    [] rule = "corridor"  -> CorridorRule(acc, source, dest)
    [] rule = "mode"      -> ModeRule(acc, mode, distance)

\* The accumulators that the rules of `order`, applied left to right, pass
\* through (lines 60-87 when order = RuleOrder): steps[1] is the start and
\* steps[i + 1] is the accumulator after the rule order[i].
RECURSIVE ApplyRules(_, _, _, _, _, _)
ApplyRules(order, steps, source, dest, distance, mode) ==
  IF order = <<>> THEN steps
  ELSE ApplyRules(Tail(order),
                  Append(steps, ApplyRule(Head(order), steps[Len(steps)],
                                          source, dest, distance, mode)),
                  source, dest, distance, mode)

InitialAcc == [risk |-> BaseRisk, reasons |-> <<>>]

\* Line 89: the only clamp of the result.
FinalClamp(risk) == Min(risk, MaxRisk)

\* The value get_risk_analysis would return with its rules taken in `order`.
RiskInOrder(order, source, dest, distance, mode) ==
  LET steps == ApplyRules(order, <<InitialAcc>>, source, dest, distance, mode)
      acc == steps[Len(steps)]
  IN  [score |-> FinalClamp(acc.risk), reasons |-> acc.reasons,
       steps |-> steps]

get_risk_analysis(source, dest, distance, mode) ==
  RiskInOrder(RuleOrder, source, dest, distance, mode)

(***************************************************************************)
(* Cost estimator (lines 156-160), in paise.                               *)
(***************************************************************************)
base_rate == 5000
SurfaceRatePaise == 50
OtherRatePaise == 250
WeightRatePaise == 150

\* Faulty variant of per_km_rate: Rail Freight gets the surface rate.
per_km_rate_surface_modes(ship_mode) ==
  IF ship_mode \in {"Surface (Trucking)", "Rail Freight"}
  THEN SurfaceRatePaise ELSE OtherRatePaise

\* Line 157.
per_km_rate(ship_mode) ==
  IF ship_mode = "Surface (Trucking)" THEN SurfaceRatePaise ELSE OtherRatePaise

total_cost_of(dist_km_, weight_, ship_mode_) ==
  base_rate + dist_km_ * per_km_rate(ship_mode_) + weight_ * WeightRatePaise

(***************************************************************************)
(* The page (lines 97-169).  Streamlit runs the script top to bottom on    *)
(* every widget event; the risk panel is drawn only in the run caused by   *)
(* the "Analyze Route Risk" button.                                        *)
(***************************************************************************)
ShipModes == {"Surface (Trucking)", "Express Air", "Rail Freight"}
MinWeight == 1
DefaultWeight == 10
MaxWeight == 3
Weights == (MinWeight .. MaxWeight) \cup {DefaultWeight}

(***************************************************************************)
(* Direct calls of the three computations, with arguments drawn from sets  *)
(* that cover every branch, every threshold on both sides, a location      *)
(* missing from state_coords and a mode the rules do not name.             *)
(***************************************************************************)
UnknownLocation == "Goa"
CallLocations == States \cup {UnknownLocation}
CallModes == ShipModes \cup {"Standard Post (India Post)"}
MaxDistanceStep == 5
MaxCallWeight == 10
\* Both sides of every threshold of the rules, the distances the scenarios
\* name, and a grid of 500 km steps.
CallDistances ==
  {15, 99, 100, 101, 800, 999, 1000, 1001, 1799, 1800, 1801, 2000}
    \cup {500 * k : k \in 0 .. MaxDistanceStep}
CallWeights == MinWeight .. MaxCallWeight

RECURSIVE Perms(_)
Perms(S) ==
  IF S = {} THEN {<<>>}
  ELSE UNION { { <<r>> \o p : p \in Perms(S \ {r}) } : r \in S }

RuleOrders == Perms({RuleOrder[i] : i \in DOMAIN RuleOrder})

VARIABLES
  source_state, dest_state, ship_mode, weight,   \* sidebar widgets
  dist_km, total_cost,                           \* computed by every run
  analyzed, risk_score, insights,                \* the risk panel of tab 1
  fn, args, ret                                  \* a direct call and its outcome

uiVars == <<source_state, dest_state, ship_mode, weight, dist_km, total_cost,
            analyzed, risk_score, insights>>
callVars == <<fn, args, ret>>
vars == <<uiVars, callVars>>

NoArgs == [state1 |-> "", state2 |-> "", distance |-> 0, mode |-> "",
           weight |-> 0, order |-> <<>>]
NoRet == [kind |-> "none", value |-> 0, looked_up |-> <<>>, reasons |-> <<>>,
          steps |-> <<>>]

\* One run of the script with the widgets at (s, d, m, w); clicked is the
\* value st.button returns in this run.
ScriptRun(s, d, m, w, clicked) ==
  LET km == calculate_distance(s, d).value
      analysis == get_risk_analysis(s, d, km, m)
  IN  /\ source_state' = s
      /\ dest_state' = d
      /\ ship_mode' = m
      /\ weight' = w
      /\ dist_km' = km
      /\ total_cost' = total_cost_of(km, w, m)
      /\ analyzed' = clicked
      /\ risk_score' = IF clicked THEN analysis.score ELSE 0
      /\ insights' = IF clicked THEN analysis.reasons ELSE <<>>
      /\ UNCHANGED callVars

Init ==
  /\ source_state = "Delhi"
  /\ dest_state = "Maharashtra"
  /\ ship_mode = "Surface (Trucking)"
  /\ weight = DefaultWeight
  /\ dist_km = calculate_distance("Delhi", "Maharashtra").value
  /\ total_cost = total_cost_of(dist_km, DefaultWeight, "Surface (Trucking)")
  /\ analyzed = FALSE
  /\ risk_score = 0
  /\ insights = <<>>
  /\ fn = "none"
  /\ args = NoArgs
  /\ ret = NoRet

SelectOrigin ==
  \E s \in States : ScriptRun(s, dest_state, ship_mode, weight, FALSE)

SelectDestination ==
  \E d \in States : ScriptRun(source_state, d, ship_mode, weight, FALSE)

SelectMode ==
  \E m \in ShipModes : ScriptRun(source_state, dest_state, m, weight, FALSE)

SetWeight ==
  \E w \in Weights : ScriptRun(source_state, dest_state, ship_mode, w, FALSE)

ClickAnalyze ==
  ScriptRun(source_state, dest_state, ship_mode, weight, TRUE)

Next ==
  \/ SelectOrigin
  \/ SelectDestination
  \/ SelectMode
  \/ SetWeight
  \/ ClickAnalyze

Spec == Init /\ [][Next]_vars

CallDistance ==
  /\ fn = "none"
  /\ \E s1 \in CallLocations, s2 \in CallLocations :
    LET r == calculate_distance(s1, s2)
    IN  /\ fn' = "calculate_distance"
        /\ args' = [NoArgs EXCEPT !.state1 = s1, !.state2 = s2]
        /\ ret' = [kind |-> r.kind, value |-> r.value,
                   looked_up |-> r.looked_up, reasons |-> <<>>,
                   steps |-> <<>>]
        /\ UNCHANGED uiVars

CallRisk ==
  /\ fn = "none"
  /\ \E s \in States, d \in States, km \in CallDistances, m \in CallModes :
    LET r == get_risk_analysis(s, d, km, m)
    IN  /\ fn' = "get_risk_analysis"
        /\ args' = [NoArgs EXCEPT !.state1 = s, !.state2 = d,
                                  !.distance = km, !.mode = m,
                                  !.order = RuleOrder]
        /\ ret' = [kind |-> "return", value |-> r.score,
                   looked_up |-> <<>>, reasons |-> r.reasons,
                   steps |-> r.steps]
        /\ UNCHANGED uiVars

\* The rules of get_risk_analysis evaluated in another order.
CallRiskReordered ==
  /\ fn = "none"
  /\ \E o \in RuleOrders, s \in States, d \in States,
     km \in CallDistances, m \in CallModes :
    LET r == RiskInOrder(o, s, d, km, m)
    IN  /\ fn' = "rules_in_order"
        /\ args' = [NoArgs EXCEPT !.state1 = s, !.state2 = d,
                                  !.distance = km, !.mode = m, !.order = o]
        /\ ret' = [kind |-> "return", value |-> r.score,
                   looked_up |-> <<>>, reasons |-> r.reasons,
                   steps |-> r.steps]
        /\ UNCHANGED uiVars

CallCost ==
  /\ fn = "none"
  /\ \E km \in CallDistances, w \in CallWeights, m \in CallModes :
    /\ fn' = "total_cost"
    /\ args' = [NoArgs EXCEPT !.distance = km, !.weight = w, !.mode = m]
    /\ ret' = [kind |-> "return", value |-> total_cost_of(km, w, m),
               looked_up |-> <<>>, reasons |-> <<>>, steps |-> <<>>]
    /\ UNCHANGED uiVars

\* The caller has taken the outcome; the next call can be made.
CallDone ==
  /\ fn # "none"
  /\ fn' = "none"
  /\ args' = NoArgs
  /\ ret' = NoRet
  /\ UNCHANGED uiVars

NextCall ==
  \/ CallDone
  \/ CallDistance
  \/ CallRisk
  \/ CallRiskReordered
  \/ CallCost

SpecCall == Init /\ [][NextCall]_vars

(***************************************************************************)
(* Properties.                                                             *)
(***************************************************************************)
IsDistanceCall == fn = "calculate_distance"
IsRiskCall == fn = "get_risk_analysis"
IsReorderedCall == fn = "rules_in_order"
IsCostCall == fn = "total_cost"

\* C1: the score the page shows after "Analyze Route Risk" is in [1, 99]
\* for every origin, destination and mode the sidebar offers.
C1_ScoreWithinOneTo99 ==
  analyzed => risk_score \in 1 .. 99

\* C2: for every location A of state_coords, calculate_distance(A, A)
\* returns exactly 15 and looks up no coordinates (the haversine branch is
\* not entered).
C2_SameLocationIsFifteen ==
  (IsDistanceCall /\ args.state1 = args.state2 /\ args.state1 \in States)
    => (ret.kind = "return" /\ ret.value = 15 /\ ret.looked_up = <<>>)

C2_Witness ==
  /\ IsDistanceCall
  /\ args.state1 = "Assam"
  /\ args.state2 = "Assam"
  /\ ret.kind = "return"
  /\ ret.value = 15

\* C3: for distinct locations A, B of state_coords, the whole-kilometre
\* value of calculate_distance(A, B) equals that of calculate_distance(B, A).
C3_DistanceSymmetric ==
  (IsDistanceCall /\ args.state1 \in States /\ args.state2 \in States
     /\ args.state1 # args.state2)
    => (/\ ret.kind = "return"
        /\ calculate_distance(args.state2, args.state1).kind = "return"
        /\ ret.value = calculate_distance(args.state2, args.state1).value)

C3_Witness ==
  /\ IsDistanceCall
  /\ args.state1 = "Delhi"
  /\ args.state2 = "Kerala"
  /\ ret.kind = "return"
  /\ ret.value = 2384

\* C4: a call of calculate_distance with a name that is not a key of
\* state_coords, as either argument or as both, ends in a KeyError and
\* returns no distance.
C4_UnknownLocationRaises ==
  (IsDistanceCall /\ (args.state1 \notin States \/ args.state2 \notin States))
    => ret.kind = "KeyError"

\* C5: with mode 'Express Air' and a distance above the long-haul threshold
\* the long-haul penalty is not applied: the score equals the score of the
\* same request at 500 km, and the long-haul reason is absent.
C5_AirSuppressesLongHaulPenalty ==
  (IsRiskCall /\ args.mode = "Express Air" /\ args.distance > 1800)
    => (/\ ret.value =
             get_risk_analysis(args.state1, args.state2, 500, args.mode).score
        /\ \A i \in DOMAIN ret.reasons : ret.reasons[i] # LongHaulReason)

\* The change of the running total made by the i-th rule of the call, and
\* the number of reasons that rule appended.
RuleDelta(i) == ret.steps[i + 1].risk - ret.steps[i].risk
RuleReasons(i) == Len(ret.steps[i + 1].reasons) - Len(ret.steps[i].reasons)

IsPostScenario ==
  /\ IsRiskCall
  /\ args.state2 = "Jammu & Kashmir"
  /\ args.mode = "Standard Post (India Post)"
  /\ args.distance = 2000

\* C7 (as stated): destination Jammu & Kashmir, mode Standard Post, 2000 km
\* accumulates 105 before the clamp and returns 99.
C7_PostScenarioReturns99 ==
  IsPostScenario => (ret.steps[5].risk = 105 /\ ret.value = 99)

\* C7 (amended): destination Jammu & Kashmir, mode Standard Post, 2000 km
\* accumulates 10 + 25 (long haul) + 40 (terrain) + 0 (no mode rule names
\* Standard Post) = 75 and returns 75.
C7_PostScenarioReturns75 ==
  IsPostScenario
    => (/\ ret.steps[1].risk = 10
        /\ RuleDelta(1) = 25
        /\ RuleDelta(2) = 40
        /\ RuleDelta(3) = 0
        /\ RuleDelta(4) = 0
        /\ ret.steps[5].risk = 75
        /\ ret.value = 75)

C7_Witness ==
  /\ IsPostScenario
  /\ args.state1 = "Delhi"
  /\ ret.value = 75
  /\ Len(ret.reasons) = 2

\* C8: the cost is 50 rupees + distance * rate + weight * 1.5 rupees, with
\* rate 0.5 for 'Surface (Trucking)' and 2.5 for every other mode,
\* 'Rail Freight' included; 800 km, 10 kg by 'Surface (Trucking)' costs
\* 465.00 rupees.
C8_CostFormula ==
  IsCostCall
    => (/\ args.mode = "Surface (Trucking)"
             => ret.value = 5000 + args.distance * 50 + args.weight * 150
        /\ args.mode \in {"Express Air", "Rail Freight",
                          "Standard Post (India Post)"}
             => ret.value = 5000 + args.distance * 250 + args.weight * 150
        /\ (args.distance = 800 /\ args.weight = 10
              /\ args.mode = "Surface (Trucking)") => ret.value = 46500)

C8_Witness ==
  /\ IsCostCall
  /\ args.distance = 800
  /\ args.weight = 10
  /\ args.mode = "Rail Freight"
  /\ ret.value = 206500

SameReasons(r1, r2) ==
  /\ Len(r1) = Len(r2)
  /\ {r1[i] : i \in DOMAIN r1} = {r2[i] : i \in DOMAIN r2}

AgreesWithCodeOrder ==
  LET code == get_risk_analysis(args.state1, args.state2, args.distance,
                                args.mode)
  IN  ret.value = code.score /\ SameReasons(ret.reasons, code.reasons)

\* C9 (as stated): for every input, the rules applied in any permutation
\* give the score of the code's order; only the order of the reasons
\* differs.
C9_OrderIndependent ==
  IsReorderedCall => AgreesWithCodeOrder

\* C9 (amended): for every input whose mode is not 'Express Air', the rules
\* applied in any permutation give the score of the code's order, and the
\* same reasons in some order.
C9_OrderIndependentUnlessAir ==
  (IsReorderedCall /\ args.mode # "Express Air") => AgreesWithCodeOrder

C9_Witness ==
  /\ IsReorderedCall
  /\ args.order = <<"mode", "corridor", "geography", "distance">>
  /\ args.state1 = "Maharashtra"
  /\ args.state2 = "Gujarat"
  /\ args.distance = 2000
  /\ args.mode = "Surface (Trucking)"
  /\ Len(ret.reasons) = 3
  /\ ret.value = 40

\* The rule (its position in RuleOrder) that emits a given reason.
RuleOfReason(reason) ==
  CASE reason \in {LongHaulReason, ShortHopReason} -> 1
    [] reason \in {TerrainReason(d) : d \in difficult_terrain} -> 2
    [] reason = CorridorReason -> 3
    [] reason \in {TruckingReason, AirReason} -> 4
    [] OTHER -> 0

RulesThatChangedTotal == {i \in 1 .. 4 : RuleDelta(i) # 0}

\* C10: in get_risk_analysis every rule that changes the running total
\* appends exactly one reason, no rule appends more than one, the reasons
\* lie in the order distance, geography, corridor, mode, their number is at
\* least the number of rules that changed the total and at most 4, and the
\* list is empty when the score is the unmodified base 10.
C10_ReasonsFollowRules ==
  IsRiskCall
    => (/\ \A i \in 1 .. 4 :
             /\ RuleDelta(i) # 0 => RuleReasons(i) = 1
             /\ RuleReasons(i) \in {0, 1}
             /\ SubSeq(ret.steps[i + 1].reasons, 1, Len(ret.steps[i].reasons))
                  = ret.steps[i].reasons
        /\ ret.reasons = ret.steps[5].reasons
        /\ \A i \in DOMAIN ret.reasons : RuleOfReason(ret.reasons[i]) # 0
        /\ \A i, j \in DOMAIN ret.reasons :
             i < j => RuleOfReason(ret.reasons[i]) < RuleOfReason(ret.reasons[j])
        /\ Len(ret.reasons) >= Cardinality(RulesThatChangedTotal)
        /\ Len(ret.reasons) <= 4
        /\ RulesThatChangedTotal = {} => ret.reasons = <<>>
        /\ ret.value = 10 => ret.reasons = <<>>)

C10_Witness ==
  /\ IsRiskCall
  /\ args.state1 = "Maharashtra"
  /\ args.state2 = "Gujarat"
  /\ args.distance = 2000
  /\ args.mode = "Surface (Trucking)"
  /\ ret.reasons = <<LongHaulReason, CorridorReason, TruckingReason>>
  /\ Cardinality(RulesThatChangedTotal) = 3

=============================================================================
